---- MODULE Spec2Model ----
(***************************************************************************)
(* Model of simple_bank.py (Simple Bank v2.1): the account ledger and the  *)
(* transaction-validation rules.  One account, either a plain Conta or a   *)
(* ContaCorrente, is mutated through Saque.registrar / Deposito.registrar  *)
(* (the calls Cliente.realizar_transacao forwards to): specification Spec. *)
(* SpecCopia adds a caller that holds and mutates the list returned by     *)
(* Historico.transacoes; SpecBanco is the menu of main(): the roster, the  *)
(* account list and the JSON file, over program runs.                      *)
(*                                                                         *)
(* Amounts are Python floats.  A float is modelled as a record             *)
(*   [cls |-> "fin", n |-> i]   the finite value i (an integer, on which   *)
(*                              binary floating point is exact),           *)
(*   [cls |-> "nan", n |-> 0]   not-a-number,                              *)
(* with the comparison and arithmetic rules of IEEE 754 that Python uses.  *)
(***************************************************************************)
EXTENDS Integers, Sequences, FiniteSets, TLC

\* ------------------------------------------------------------------ bounds
\* Largest number of entries a history may hold in the model.
MaxHist == 4
\* Last instant of the model's clock (the clock counts ticks from 0).
MaxRelogio == 1
\* Clock ticks in one calendar day.
TicksPorDia == 1
\* Largest number of entries the history of SpecDias may hold.
MaxDias == 5
\* Largest number of accounts and history entries, counted together, the
\* menu creates in the model.
MaxObjetos == 4

\* ------------------------------------------------------- program constants
\* ContaCorrente.__init__: limite: float = 500.0
LimitePadrao == 500
\* ContaCorrente.__init__: limite_saques: int = 3
LimiteSaquesPadrao == 3
\* validar_cpf: len(cpf) != 11
TamanhoCPF == 11

\* ------------------------------------------------------------ Python floats
Fin(i) == [cls |-> "fin", n |-> i]
NaN == [cls |-> "nan", n |-> 0]

IsNaN(a) == a.cls = "nan"

\* a < b on floats: False as soon as one operand is NaN.
FLt(a, b) == ~IsNaN(a) /\ ~IsNaN(b) /\ a.n < b.n

\* a == b on floats: NaN is equal to nothing, itself included.
FEq(a, b) == ~IsNaN(a) /\ ~IsNaN(b) /\ a.n = b.n

\* a <= b, a > b, a >= b on floats.
FLe(a, b) == ~IsNaN(a) /\ ~IsNaN(b) /\ a.n <= b.n
FGt(a, b) == FLt(b, a)
FGe(a, b) == FLe(b, a)

\* a + b and a - b on floats: NaN is absorbing.
FAdd(a, b) == IF IsNaN(a) \/ IsNaN(b) THEN NaN ELSE Fin(a.n + b.n)
FSub(a, b) == IF IsNaN(a) \/ IsNaN(b) THEN NaN ELSE Fin(a.n - b.n)

\* The amounts a caller may pass.  The menu passes float(input(...)), which
\* accepts any decimal numeral and also "nan".
Valores == {Fin(-1), Fin(0), Fin(500), Fin(2000), NaN}

\* ------------------------------------------------------------------- state
VARIABLES
    classe,      \* "Conta" or "ContaCorrente": the class of the account
    saldo,       \* Conta._saldo
    historico,   \* Historico._transacoes: sequence of (datetime, Transacao)
    agora,       \* the last value datetime.now() returned
    ultimo,      \* the last call of registrar: its transaction and outcome
    copia,       \* the list a caller got from Historico.transacoes
    pc,          \* main(): "parado" (not running), "menu" (at the menu
                 \* prompt) or "pausa" (an option was run, its message shows)
    clientes,    \* main(): clientes, the list of Cliente objects
    contas,      \* main(): contas, the list of Conta objects
    arquivo,     \* the content of dados_banco.json
    menu         \* the last menu option: the account number it used, the
                 \* exception it caught and the message it showed

\* The account of Spec and SpecCopia, the caller's list, the state of main().
varsConta == <<classe, saldo, historico, ultimo>>
varsBanco == <<pc, clientes, contas, arquivo, menu>>
vars == <<classe, saldo, historico, agora, ultimo, copia,
          pc, clientes, contas, arquivo, menu>>

\* The calendar date of an instant: datetime.date().
Data(t) == t \div TicksPorDia

Classes == {"Conta", "ContaCorrente"}

\* --------------------------------------------------------------- exceptions
\* An exception is its class name and the arguments it was built with.
Nenhum == [nome |-> "nenhum", args |-> <<>>]
ValorInvalidoError == [nome |-> "ValorInvalidoError", args |-> <<>>]
SaldoInsuficienteError(s, valor) ==
    [nome |-> "SaldoInsuficienteError", args |-> <<s, valor>>]
LimiteSaqueError(limite) == [nome |-> "LimiteSaqueError", args |-> <<limite>>]
LimiteQtdSaquesError == [nome |-> "LimiteQtdSaquesError", args |-> <<>>]

\* ------------------------------------------------------------- transactions
Saque(valor) == [tipo |-> "Saque", valor |-> valor]
Deposito(valor) == [tipo |-> "Deposito", valor |-> valor]

\* Mutant of Historico.adicionar_transacao: the entry is stamped with the
\* instant the program started, not with the clock.
adicionar_transacao_DataAntiga(h, t, transacao) ==
    Append(h, [data |-> 0, transacao |-> transacao])

\* Mutant of Historico.adicionar_transacao: the entry is inserted at the
\* front of the list.
adicionar_transacao_NoInicio(h, t, transacao) ==
    <<[data |-> t, transacao |-> transacao]>> \o h

\* Historico.adicionar_transacao: append (datetime.now(), transacao), where
\* t is the instant the clock shows at the call.
adicionar_transacao(h, t, transacao) ==
    Append(h, [data |-> t, transacao |-> transacao])

\* A list a caller holds: itens is its content, mesma says whether it is the
\* very list object of the Historico (tem: the caller holds one at all).
\* Mutant of Historico.transacoes: `return self._transacoes`, the list itself.
transacoes_MesmaLista(h) == [tem |-> TRUE, mesma |-> TRUE, itens |-> h]

\* Historico.transacoes: `return self._transacoes[:]`, a new list with the
\* same entries.
transacoes(h) == [tem |-> TRUE, mesma |-> FALSE, itens |-> h]

\* datetime.isoformat: the text "YYYY-MM-DDTHH:MM:SS.ffffff", a date part and
\* a time-of-day part.
isoformat(t) ==
    [texto |-> "iso", dia |-> t \div TicksPorDia, hora |-> t % TicksPorDia]

\* Mutant of datetime.fromisoformat: only the time of day is read.
fromisoformat_SoHora(x) == x.hora

\* datetime.fromisoformat: the instant a text of isoformat denotes.
fromisoformat(x) == x.dia * TicksPorDia + x.hora

\* json.dump of a float: the token NaN for a NaN, the shortest decimal that
\* reads back as the same float for a number.
json_float(x) ==
    IF IsNaN(x) THEN [token |-> "NaN"] ELSE [token |-> "decimal", n |-> x.n]

\* json.load of a token json.dump wrote for a float.
float_json(j) == IF j.token = "NaN" THEN NaN ELSE Fin(j.n)

\* historico_formatado of salvar_dados_json: the JSON list written for the
\* snapshot h of a history.
historico_formatado(h) ==
    [i \in 1..Len(h) |->
        [tipo |-> h[i].transacao.tipo,
         valor |-> json_float(h[i].transacao.valor),
         data |-> isoformat(h[i].data)]]

\* ----------------------------------------------------------------- accounts
\* Mutant of Conta.sacar: the balance is debited before the funds are checked.
Conta_sacar_DebitaAntes(s, valor) ==
    IF FLe(valor, Fin(0))
    THEN [erro |-> ValorInvalidoError, saldo |-> s]
    ELSE IF FLt(s, valor)
    THEN [erro |-> SaldoInsuficienteError(s, valor), saldo |-> FSub(s, valor)]
    ELSE [erro |-> Nenhum, saldo |-> FSub(s, valor)]

\* Mutant of Conta.sacar: the funds are not checked.
Conta_sacar_SemVerificarSaldo(s, valor) ==
    IF FLe(valor, Fin(0))
    THEN [erro |-> ValorInvalidoError, saldo |-> s]
    ELSE [erro |-> Nenhum, saldo |-> FSub(s, valor)]

\* Mutant of Conta.sacar: `valor < 0` for `valor <= 0`.
Conta_sacar_AceitaZero(s, valor) ==
    IF FLt(valor, Fin(0))
    THEN [erro |-> ValorInvalidoError, saldo |-> s]
    ELSE IF FLt(s, valor)
    THEN [erro |-> SaldoInsuficienteError(s, valor), saldo |-> s]
    ELSE [erro |-> Nenhum, saldo |-> FSub(s, valor)]

\* Conta.sacar: the outcome (exception or none) and the balance it leaves.
Conta_sacar(s, valor) ==
    IF FLe(valor, Fin(0))
    THEN [erro |-> ValorInvalidoError, saldo |-> s]
    ELSE IF FLt(s, valor)
    THEN [erro |-> SaldoInsuficienteError(s, valor), saldo |-> s]
    ELSE [erro |-> Nenhum, saldo |-> FSub(s, valor)]

\* Mutant of Conta.depositar: `valor < 0` for `valor <= 0`.
Conta_depositar_AceitaZero(s, valor) ==
    IF FLt(valor, Fin(0))
    THEN [erro |-> ValorInvalidoError, saldo |-> s]
    ELSE [erro |-> Nenhum, saldo |-> FAdd(s, valor)]

\* Conta.depositar: the outcome and the balance it leaves.
Conta_depositar(s, valor) ==
    IF FLe(valor, Fin(0))
    THEN [erro |-> ValorInvalidoError, saldo |-> s]
    ELSE [erro |-> Nenhum, saldo |-> FAdd(s, valor)]

\* Mutant of the list comprehension of ContaCorrente.sacar: the dates are
\* not compared, every Saque entry is kept.
RECURSIVE saques_hoje_SemData(_, _, _)
saques_hoje_SemData(h, i, t) ==
    IF i > Len(h) THEN {[n |-> 0, t |-> t]}
    ELSE IF h[i].transacao.tipo # "Saque" THEN saques_hoje_SemData(h, i + 1, t)
    ELSE UNION {
        {[n |-> x.n + 1, t |-> x.t] : x \in saques_hoje_SemData(h, i + 1, r)}
        : r \in t..MaxRelogio}

\* The list comprehension of ContaCorrente.sacar, from entry i on, when the
\* clock last showed t.  datetime.now() is evaluated once for every Saque
\* entry (the `and` skips it for a Deposito), each time at an instant not
\* before the previous one.  The result is the set of the possible outcomes
\* [n |-> number of entries kept, t |-> instant of the last clock reading].
RECURSIVE saques_hoje(_, _, _)
saques_hoje(h, i, t) ==
    IF i > Len(h) THEN {[n |-> 0, t |-> t]}
    ELSE IF h[i].transacao.tipo # "Saque" THEN saques_hoje(h, i + 1, t)
    ELSE UNION {
        {[n |-> x.n + (IF Data(h[i].data) = Data(r) THEN 1 ELSE 0), t |-> x.t]
            : x \in saques_hoje(h, i + 1, r)}
        : r \in t..MaxRelogio}

\* Mutant of ContaCorrente.sacar: `saques_hoje > limite_saques` for `>=`.
ContaCorrente_sacar_ContagemEstrita(s, valor, n) ==
    IF FGt(valor, Fin(LimitePadrao))
    THEN [erro |-> LimiteSaqueError(Fin(LimitePadrao)), saldo |-> s]
    ELSE IF n > LimiteSaquesPadrao
    THEN [erro |-> LimiteQtdSaquesError, saldo |-> s]
    ELSE Conta_sacar(s, valor)

\* Mutant of ContaCorrente.sacar: the daily count is checked before the
\* per-operation limit.
ContaCorrente_sacar_ContagemPrimeiro(s, valor, n) ==
    IF n >= LimiteSaquesPadrao
    THEN [erro |-> LimiteQtdSaquesError, saldo |-> s]
    ELSE IF FGt(valor, Fin(LimitePadrao))
    THEN [erro |-> LimiteSaqueError(Fin(LimitePadrao)), saldo |-> s]
    ELSE Conta_sacar(s, valor)

\* Mutant of ContaCorrente.sacar: `valor >= limite` for `valor > limite`.
ContaCorrente_sacar_LimiteInclusivo(s, valor, n) ==
    IF FGe(valor, Fin(LimitePadrao))
    THEN [erro |-> LimiteSaqueError(Fin(LimitePadrao)), saldo |-> s]
    ELSE IF n >= LimiteSaquesPadrao
    THEN [erro |-> LimiteQtdSaquesError, saldo |-> s]
    ELSE Conta_sacar(s, valor)

\* ContaCorrente.sacar, given the count n the comprehension produced.
ContaCorrente_sacar(s, valor, n) ==
    IF FGt(valor, Fin(LimitePadrao))
    THEN [erro |-> LimiteSaqueError(Fin(LimitePadrao)), saldo |-> s]
    ELSE IF n >= LimiteSaquesPadrao
    THEN [erro |-> LimiteQtdSaquesError, saldo |-> s]
    ELSE Conta_sacar(s, valor)

\* conta.sacar(valor) dispatched on the class of the account: the possible
\* outcomes [erro, saldo, t], t the instant of the last clock reading.
sacar(valor) ==
    IF classe = "ContaCorrente"
    THEN {[erro |-> ContaCorrente_sacar(saldo, valor, x.n).erro,
           saldo |-> ContaCorrente_sacar(saldo, valor, x.n).saldo,
           t |-> x.t] : x \in saques_hoje(historico, 1, agora)}
    ELSE {[erro |-> Conta_sacar(saldo, valor).erro,
           saldo |-> Conta_sacar(saldo, valor).saldo,
           t |-> agora]}

\* ------------------------------------------------------------------ actions
\* No caller holds a list yet.
SemCopia == [tem |-> FALSE, mesma |-> FALSE, itens |-> <<>>]

\* dados_banco.json does not exist.
Ausente == [estado |-> "ausente"]

\* No menu operation yet.
SemOperacao == [op |-> "nenhuma", conta |-> 0, erro |-> Nenhum, msg |-> ""]

\* Before main() runs: nothing in memory, no data file.
BancoParado ==
    /\ pc = "parado"
    /\ clientes = <<>>
    /\ contas = <<>>
    /\ arquivo = Ausente
    /\ menu = SemOperacao

\* Conta.__init__ / ContaCorrente.__init__: a new account.
Init ==
    /\ classe \in Classes
    /\ saldo = Fin(0)
    /\ historico = <<>>
    /\ agora = 0
    /\ ultimo = [transacao |-> [tipo |-> "nenhuma", valor |-> Fin(0)],
                 erro |-> Nenhum]
    /\ copia = SemCopia
    /\ BancoParado

\* Saque.registrar (reached through Cliente.realizar_transacao):
\* conta.sacar(valor), then, unless it raised, the history append.  The
\* model lets the history grow to max entries.
Saque_registrar_ate(valor, max) ==
    \E r \in sacar(valor) :
        /\ ultimo' = [transacao |-> Saque(valor), erro |-> r.erro]
        /\ saldo' = r.saldo
        /\ classe' = classe
        /\ IF r.erro = Nenhum
           THEN /\ Len(historico) < max
                /\ \E t \in r.t..MaxRelogio :
                      /\ agora' = t
                      /\ historico' =
                            adicionar_transacao(historico, t, Saque(valor))
           ELSE /\ agora' = r.t
                /\ historico' = historico

Saque_registrar(valor) == Saque_registrar_ate(valor, MaxHist)

\* Deposito.registrar: conta.depositar(valor), then, unless it raised, the
\* history append.  The model lets the history grow to max entries.
Deposito_registrar_ate(valor, max) ==
    LET r == Conta_depositar(saldo, valor) IN
        /\ ultimo' = [transacao |-> Deposito(valor), erro |-> r.erro]
        /\ saldo' = r.saldo
        /\ classe' = classe
        /\ IF r.erro = Nenhum
           THEN /\ Len(historico) < max
                /\ \E t \in agora..MaxRelogio :
                      /\ agora' = t
                      /\ historico' =
                            adicionar_transacao(historico, t, Deposito(valor))
           ELSE /\ agora' = agora
                /\ historico' = historico

Deposito_registrar(valor) == Deposito_registrar_ate(valor, MaxHist)

\* Cliente.realizar_transacao: transacao.registrar(conta).
realizar_transacao ==
    \/ \E valor \in Valores : Saque_registrar(valor)
    \/ \E valor \in Valores : Deposito_registrar(valor)

Next == realizar_transacao /\ UNCHANGED <<copia, varsBanco>>

Spec == Init /\ [][Next]_vars

\* --------------------------------------- a checking account over several days
\* The amounts of the transactions of SpecDias: a deposit that pays for four
\* withdrawals, a withdrawal within the per-operation limit, one above it,
\* and the amount 0, which both operations refuse.
DepositosDias == {Fin(0), Fin(2000)}
SaquesDias == {Fin(0), Fin(500), Fin(2000)}

\* Cliente.realizar_transacao on a ContaCorrente, with these amounts.
realizar_transacao_dias ==
    /\ \/ \E valor \in SaquesDias : Saque_registrar_ate(valor, MaxDias)
       \/ \E valor \in DepositosDias : Deposito_registrar_ate(valor, MaxDias)
    /\ UNCHANGED <<copia, varsBanco>>

InitDias == Init /\ classe = "ContaCorrente"

NextDias == realizar_transacao_dias

SpecDias == InitDias /\ [][NextDias]_vars

\* ------------------------------------------- a caller of Historico.transacoes
\* The amounts of the transactions of SpecCopia.
ValoresCopia == {Fin(0), Fin(500)}

\* An entry the caller makes up and appends to its list.
EntradaForjada == [data |-> 0, transacao |-> Saque(Fin(500))]

Reverse(q) == [i \in 1..Len(q) |-> q[Len(q) + 1 - i]]

\* What the caller's list shows after the history list became h: the same
\* content when it is the same list object.
Reflete(h) == IF copia.mesma THEN [copia EXCEPT !.itens = h] ELSE copia

\* A transaction of the account while a caller holds a list.
realizar_transacao_copia ==
    /\ \/ \E valor \in ValoresCopia : Saque_registrar(valor)
       \/ \E valor \in ValoresCopia : Deposito_registrar(valor)
    /\ copia' = Reflete(historico')
    /\ UNCHANGED varsBanco

\* A caller evaluates conta.historico.transacoes and keeps the result.
ObterCopia ==
    /\ copia' = transacoes(historico)
    /\ UNCHANGED <<varsConta, agora, varsBanco>>

\* The caller changes its list to itens; the list of the Historico changes
\* with it when it is the same list object.
Mutar(itens) ==
    /\ copia.tem
    /\ copia' = [copia EXCEPT !.itens = itens]
    /\ historico' = IF copia.mesma THEN itens ELSE historico
    /\ UNCHANGED <<classe, saldo, ultimo, agora, varsBanco>>

\* The caller appends to, removes from or reorders its list (list.append,
\* list.pop, list.reverse).
MutarCopia ==
    \/ /\ Len(copia.itens) < MaxHist
       /\ Mutar(Append(copia.itens, EntradaForjada))
    \/ /\ Len(copia.itens) > 0
       /\ Mutar(SubSeq(copia.itens, 1, Len(copia.itens) - 1))
    \/ /\ Len(copia.itens) > 1
       /\ Reverse(copia.itens) # copia.itens
       /\ Mutar(Reverse(copia.itens))

NextCopia == realizar_transacao_copia \/ ObterCopia \/ MutarCopia

SpecCopia == Init /\ [][NextCopia]_vars

\* ------------------------------------------------------------ the menu of main
\* The texts typed at the CPF prompts: two well-formed numbers and one that
\* is too short.
Repete(c, n) == [i \in 1..n |-> c]
CPFs == {Repete("1", TamanhoCPF), Repete("2", TamanhoCPF),
         Repete("1", TamanhoCPF - 1)}

\* The name typed for each CPF.
Nome(cpf) == IF cpf[1] = "1" THEN "Ana" ELSE "Bia"

\* The texts typed at the amount prompts.
Textos == {"abc", "0", "500"}

Digitos == {"0", "1", "2", "3", "4", "5", "6", "7", "8", "9"}

\* str.isdigit
isdigit(texto) ==
    Len(texto) > 0 /\ \A i \in 1..Len(texto) : texto[i] \in Digitos

ValueError == [nome |-> "ValueError", args |-> <<>>]

\* validar_cpf: the exception it raises, if any.
validar_cpf(cpf) ==
    IF ~isdigit(cpf) \/ Len(cpf) # TamanhoCPF THEN ValueError ELSE Nenhum

\* float(input(...)): the float a text denotes, or ValueError.
float(texto) ==
    CASE texto = "500" -> [erro |-> Nenhum, valor |-> Fin(500)]
      [] texto = "2000" -> [erro |-> Nenhum, valor |-> Fin(2000)]
      [] texto = "0" -> [erro |-> Nenhum, valor |-> Fin(0)]
      [] texto = "-1" -> [erro |-> Nenhum, valor |-> Fin(-1)]
      [] texto = "nan" -> [erro |-> Nenhum, valor |-> NaN]
      [] OTHER -> [erro |-> ValueError, valor |-> Fin(0)]

\* str(e) of an exception the menu catches.
str(e) == e.nome

\* Cliente.__init__.  The accounts of a customer are kept as positions in
\* the list contas: the same objects are in both lists.
Cliente(nome, cpf) == [nome |-> nome, cpf |-> cpf, contas |-> <<>>]

\* ContaCorrente.__init__ with the default limits; cliente is the position
\* of the owner in the list clientes.
ContaCorrente(numero, cliente) ==
    [numero |-> numero, agencia |-> "0001", saldo |-> Fin(0),
     cliente |-> cliente, historico |-> <<>>]

\* Mutant of filtrar_cliente: no customer is ever found.
filtrar_cliente_SemBusca(cpf, cs) == 0

\* filtrar_cliente: the first customer with the CPF, 0 for None.
filtrar_cliente(cpf, cs) ==
    LET achados == {i \in 1..Len(cs) : cs[i].cpf = cpf} IN
        IF achados = {} THEN 0
        ELSE CHOOSE i \in achados : \A j \in achados : i <= j

\* Mutant of recuperar_conta_cliente: the last account of the customer.
recuperar_conta_cliente_Ultima(cliente) ==
    IF cliente.contas = <<>> THEN 0 ELSE cliente.contas[Len(cliente.contas)]

\* recuperar_conta_cliente: cliente.contas[0], 0 for None.
recuperar_conta_cliente(cliente) ==
    IF cliente.contas = <<>> THEN 0 ELSE cliente.contas[1]

\* Mutant of criar_conta: the numbers start at 0.
numero_conta_DesdeZero(ks) == Len(ks)

\* criar_conta: numero_conta = len(contas) + 1.
numero_conta(ks) == Len(ks) + 1

\* conta.sacar(valor) on the ContaCorrente with balance s and history h when
\* the clock last showed t: the possible outcomes [erro, saldo, t].
ContaCorrente_sacar_em(s, h, valor, t) ==
    {[erro |-> ContaCorrente_sacar(s, valor, x.n).erro,
      saldo |-> ContaCorrente_sacar(s, valor, x.n).saldo,
      t |-> x.t] : x \in saques_hoje(h, 1, t)}

\* The entries of all the histories of the accounts ks[1..k].
RECURSIVE TotalMovimentos(_, _)
TotalMovimentos(ks, k) ==
    IF k = 0 THEN 0 ELSE Len(ks[k].historico) + TotalMovimentos(ks, k - 1)

\* The accounts and the history entries the menu has created.
Objetos == Len(contas) + TotalMovimentos(contas, Len(contas))

\* salvar_dados_json: the document written to the file.
salvar_dados_json(cs, ks) ==
    [estado |-> "escrito",
     clientes |-> [i \in 1..Len(cs) |-> [nome |-> cs[i].nome, cpf |-> cs[i].cpf]],
     contas |-> [k \in 1..Len(ks) |->
        [numero |-> ks[k].numero,
         agencia |-> ks[k].agencia,
         saldo |-> json_float(ks[k].saldo),
         cliente_cpf |-> cs[ks[k].cliente].cpf,
         historico |-> historico_formatado(transacoes(ks[k].historico).itens)]]]

\* clientes_por_cpf.get(cpf) of carregar_dados_json: in a dict built from the
\* list, the last customer with a CPF is the one kept; 0 for None.
clientes_por_cpf(cs, cpf) ==
    LET achados == {i \in 1..Len(cs) : cs[i].cpf = cpf} IN
        IF achados = {} THEN 0
        ELSE CHOOSE i \in achados : \A j \in achados : i >= j

\* Mutant of the history loop of carregar_dados_json: each entry is inserted
\* at the front of the list.
carregar_historico_Invertido(hf) ==
    [i \in 1..Len(hf) |->
        [data |-> fromisoformat(hf[Len(hf) + 1 - i].data),
         transacao |->
            IF hf[Len(hf) + 1 - i].tipo = "Saque"
            THEN Saque(float_json(hf[Len(hf) + 1 - i].valor))
            ELSE Deposito(float_json(hf[Len(hf) + 1 - i].valor))]]

\* Mutant of the history loop of carregar_dados_json: every entry is rebuilt
\* as a Deposito.
carregar_historico_SoDepositos(hf) ==
    [i \in 1..Len(hf) |->
        [data |-> fromisoformat(hf[i].data),
         transacao |-> Deposito(float_json(hf[i].valor))]]

\* The history loop of carregar_dados_json: one entry per element of
\* data["historico"], in its order.
carregar_historico(hf) ==
    [i \in 1..Len(hf) |->
        [data |-> fromisoformat(hf[i].data),
         transacao |->
            IF hf[i].tipo = "Saque"
            THEN Saque(float_json(hf[i].valor))
            ELSE Deposito(float_json(hf[i].valor))]]

\* The account loop of carregar_dados_json from element i of dados["contas"]
\* on, cs and ks being the customers and the accounts built so far.
RECURSIVE carregar_contas(_, _, _, _)
carregar_contas(dados, i, cs, ks) ==
    IF i > Len(dados) THEN [clientes |-> cs, contas |-> ks]
    ELSE LET cliente == clientes_por_cpf(cs, dados[i].cliente_cpf) IN
        IF cliente = 0 THEN carregar_contas(dados, i + 1, cs, ks)
        ELSE carregar_contas(dados, i + 1,
                [cs EXCEPT ![cliente].contas = Append(@, Len(ks) + 1)],
                Append(ks,
                    [ContaCorrente(dados[i].numero, cliente) EXCEPT
                        !.saldo = float_json(dados[i].saldo),
                        !.historico = carregar_historico(dados[i].historico)]))

\* carregar_dados_json: the customers and the accounts rebuilt from the file;
\* empty lists when the file is missing or is not JSON.
carregar_dados_json(arq) ==
    IF arq.estado # "escrito" THEN [clientes |-> <<>>, contas |-> <<>>]
    ELSE carregar_contas(arq.contas, 1,
            [i \in 1..Len(arq.clientes) |->
                Cliente(arq.clientes[i].nome, arq.clientes[i].cpf)],
            <<>>)

\* The option shows msg, having used the account number conta and caught
\* erro, and main() goes on to pausar_e_limpar; the account of Spec and the
\* file are not touched.
Responde(op, conta, erro, msg) ==
    /\ menu' = [op |-> op, conta |-> conta, erro |-> erro, msg |-> msg]
    /\ pc' = "pausa"
    /\ UNCHANGED <<varsConta, copia, arquivo>>

\* pausar_e_limpar: the user presses Enter and the screen is cleared.
pausar_e_limpar ==
    /\ pc = "pausa"
    /\ pc' = "menu"
    /\ menu' = SemOperacao
    /\ UNCHANGED <<varsConta, copia, agora, clientes, contas, arquivo>>

\* main() starts: limpar_tela, then carregar_dados_json.
Iniciar ==
    /\ pc = "parado"
    /\ pc' = "menu"
    /\ clientes' = carregar_dados_json(arquivo).clientes
    /\ contas' = carregar_dados_json(arquivo).contas
    /\ menu' = SemOperacao
    /\ UNCHANGED <<varsConta, copia, agora, arquivo>>

\* menu_principal waits for the user at input(): time passes.
Esperar ==
    /\ pc = "menu"
    /\ agora < MaxRelogio
    /\ agora' = agora + 1
    /\ UNCHANGED <<varsConta, copia, varsBanco>>

\* Option nu: criar_cliente.
criar_cliente(cpf, nome) ==
    /\ pc = "menu"
    /\ UNCHANGED <<contas, agora>>
    /\ IF validar_cpf(cpf) # Nenhum
       THEN /\ Responde("nu", 0, ValueError,
                        "CPF invalido! Deve conter 11 digitos numericos.")
            /\ clientes' = clientes
       ELSE IF filtrar_cliente(cpf, clientes) # 0
       THEN /\ Responde("nu", 0, Nenhum, "Ja existe um cliente com este CPF!")
            /\ clientes' = clientes
       ELSE /\ Responde("nu", 0, Nenhum, "Cliente criado com sucesso!")
            /\ clientes' = Append(clientes, Cliente(nome, cpf))

\* Option nc: criar_conta.
criar_conta(cpf) ==
    /\ pc = "menu"
    /\ agora' = agora
    /\ LET cliente == filtrar_cliente(cpf, clientes) IN
        IF cliente = 0
        THEN /\ Responde("nc", 0, Nenhum, "Cliente nao encontrado!")
             /\ UNCHANGED <<clientes, contas>>
        ELSE /\ Objetos < MaxObjetos
             /\ Responde("nc", numero_conta(contas), Nenhum,
                         "Conta corrente criada e vinculada com sucesso!")
             /\ clientes' = [clientes EXCEPT
                                ![cliente].contas = Append(@, Len(contas) + 1)]
             /\ contas' = Append(contas,
                                 ContaCorrente(numero_conta(contas), cliente))

\* Option d: executar_deposito.
executar_deposito(cpf, texto) ==
    /\ pc = "menu"
    /\ clientes' = clientes
    /\ LET cliente == filtrar_cliente(cpf, clientes) IN
        IF cliente = 0
        THEN /\ Responde("d", 0, Nenhum, "Cliente nao encontrado!")
             /\ UNCHANGED <<contas, agora>>
        ELSE LET conta == recuperar_conta_cliente(clientes[cliente]) IN
        IF conta = 0
        THEN /\ Responde("d", 0, Nenhum, "Cliente nao possui conta!")
             /\ UNCHANGED <<contas, agora>>
        ELSE IF float(texto).erro # Nenhum
        THEN /\ Responde("d", contas[conta].numero, ValueError,
                         "Valor invalido. A operacao foi cancelada.")
             /\ UNCHANGED <<contas, agora>>
        ELSE LET valor == float(texto).valor
                 r == Conta_depositar(contas[conta].saldo, valor) IN
        IF r.erro # Nenhum
        THEN /\ Responde("d", contas[conta].numero, r.erro, str(r.erro))
             /\ contas' = [contas EXCEPT ![conta].saldo = r.saldo]
             /\ agora' = agora
        ELSE /\ Objetos < MaxObjetos
             /\ Responde("d", contas[conta].numero, Nenhum,
                         "Deposito realizado com sucesso!")
             /\ \E t \in agora..MaxRelogio :
                   /\ agora' = t
                   /\ contas' = [contas EXCEPT
                         ![conta].saldo = r.saldo,
                         ![conta].historico =
                             adicionar_transacao(@, t, Deposito(valor))]

\* Option s: executar_saque.
executar_saque(cpf, texto) ==
    /\ pc = "menu"
    /\ clientes' = clientes
    /\ LET cliente == filtrar_cliente(cpf, clientes) IN
        IF cliente = 0
        THEN /\ Responde("s", 0, Nenhum, "Cliente nao encontrado!")
             /\ UNCHANGED <<contas, agora>>
        ELSE LET conta == recuperar_conta_cliente(clientes[cliente]) IN
        IF conta = 0
        THEN /\ Responde("s", 0, Nenhum, "Cliente nao possui conta!")
             /\ UNCHANGED <<contas, agora>>
        ELSE IF float(texto).erro # Nenhum
        THEN /\ Responde("s", contas[conta].numero, ValueError,
                         "Valor invalido. A operacao foi cancelada.")
             /\ UNCHANGED <<contas, agora>>
        ELSE LET valor == float(texto).valor IN
        \E r \in ContaCorrente_sacar_em(contas[conta].saldo,
                                        contas[conta].historico, valor, agora) :
        IF r.erro # Nenhum
        THEN /\ Responde("s", contas[conta].numero, r.erro, str(r.erro))
             /\ contas' = [contas EXCEPT ![conta].saldo = r.saldo]
             /\ agora' = r.t
        ELSE /\ Objetos < MaxObjetos
             /\ Responde("s", contas[conta].numero, Nenhum,
                         "Saque realizado com sucesso!")
             /\ \E t \in r.t..MaxRelogio :
                   /\ agora' = t
                   /\ contas' = [contas EXCEPT
                         ![conta].saldo = r.saldo,
                         ![conta].historico =
                             adicionar_transacao(@, t, Saque(valor))]

\* Option e: exibir_extrato_cliente, which prints a snapshot of the history.
exibir_extrato_cliente(cpf) ==
    /\ pc = "menu"
    /\ UNCHANGED <<clientes, contas, agora>>
    /\ LET cliente == filtrar_cliente(cpf, clientes) IN
        IF cliente = 0
        THEN Responde("e", 0, Nenhum, "Cliente nao encontrado!")
        ELSE LET conta == recuperar_conta_cliente(clientes[cliente]) IN
        IF conta = 0
        THEN Responde("e", 0, Nenhum, "Cliente nao possui conta!")
        ELSE Responde("e", contas[conta].numero, Nenhum, "EXTRATO")

\* Option lc: listar_contas.
listar_contas ==
    /\ pc = "menu"
    /\ UNCHANGED <<clientes, contas, agora>>
    /\ IF contas = <<>>
       THEN Responde("lc", 0, Nenhum, "Nenhuma conta cadastrada.")
       ELSE Responde("lc", 0, Nenhum, "C/C")

\* Option q: salvar_dados_json, then main() returns.  The objects are left
\* as they were when the program ended.
Sair ==
    /\ pc = "menu"
    /\ pc' = "parado"
    /\ arquivo' = salvar_dados_json(clientes, contas)
    /\ menu' = [op |-> "q", conta |-> 0, erro |-> Nenhum,
                msg |-> "Dados salvos. Encerrando o sistema... Obrigado!"]
    /\ UNCHANGED <<varsConta, copia, agora, clientes, contas>>

InitBanco == Init /\ classe = "ContaCorrente"

NextBanco ==
    \/ Iniciar
    \/ Esperar
    \/ \E cpf \in CPFs : criar_cliente(cpf, Nome(cpf))
    \/ \E cpf \in CPFs : criar_conta(cpf)
    \/ \E cpf \in CPFs, texto \in Textos : executar_deposito(cpf, texto)
    \/ \E cpf \in CPFs, texto \in Textos : executar_saque(cpf, texto)
    \/ \E cpf \in CPFs : exibir_extrato_cliente(cpf)
    \/ listar_contas
    \/ pausar_e_limpar
    \/ Sair

SpecBanco == InitBanco /\ [][NextBanco]_vars

\* ------------------------------------- a checking account over program runs
\* The account of SpecDias as the only account of main(): the lists clientes
\* and contas that hold one customer and its ContaCorrente, which has the
\* balance s and the history h.
ClienteUnico ==
    <<[Cliente("Ana", Repete("1", TamanhoCPF)) EXCEPT !.contas = <<1>>]>>
ContaUnica(s, h) ==
    <<[ContaCorrente(1, 1) EXCEPT !.saldo = s, !.historico = h]>>

\* No registrar call has been made in this run.
SemChamada ==
    [transacao |-> [tipo |-> "nenhuma", valor |-> Fin(0)], erro |-> Nenhum]

\* main() starts: carregar_dados_json rebuilds the account from the file;
\* without a file the account is the new one.
IniciarConta ==
    /\ pc = "parado"
    /\ pc' = "menu"
    /\ IF arquivo.estado = "escrito"
       THEN /\ saldo' = carregar_dados_json(arquivo).contas[1].saldo
            /\ historico' = carregar_dados_json(arquivo).contas[1].historico
       ELSE UNCHANGED <<saldo, historico>>
    /\ ultimo' = SemChamada
    /\ UNCHANGED <<classe, agora, copia, clientes, contas, arquivo, menu>>

\* Option q of main(): salvar_dados_json writes the account, the run ends.
SairConta ==
    /\ pc = "menu"
    /\ pc' = "parado"
    /\ arquivo' = salvar_dados_json(ClienteUnico, ContaUnica(saldo, historico))
    /\ UNCHANGED <<varsConta, agora, copia, clientes, contas, menu>>

\* Options d and s of main() on the account, with the amounts of SpecDias.
realizar_transacao_conta ==
    /\ pc = "menu"
    /\ \/ \E valor \in SaquesDias : Saque_registrar_ate(valor, MaxDias)
       \/ \E valor \in DepositosDias : Deposito_registrar_ate(valor, MaxDias)
    /\ UNCHANGED <<copia, varsBanco>>

NextReinicio == IniciarConta \/ realizar_transacao_conta \/ SairConta

SpecReinicio == InitDias /\ [][NextReinicio]_vars

\* ------------------------------------------------------ notions of the claims
\* sum(...) of the amounts of the entries of one kind, as Python adds floats:
\* from 0, left to right.
RECURSIVE SomaAte(_, _, _)
SomaAte(h, tipo, k) ==
    IF k = 0 THEN Fin(0)
    ELSE IF h[k].transacao.tipo = tipo
    THEN FAdd(SomaAte(h, tipo, k - 1), h[k].transacao.valor)
    ELSE SomaAte(h, tipo, k - 1)

Soma(h, tipo) == SomaAte(h, tipo, Len(h))

\* The number of withdrawals the history h records on the calendar date d.
SaquesNaData(h, d) ==
    Cardinality({i \in 1..Len(h) :
        h[i].transacao.tipo = "Saque" /\ Data(h[i].data) = d})

\* The step is a call of Saque.registrar / Deposito.registrar, for the amount
\* Valor.
Saca == ultimo'.transacao.tipo = "Saque"
Deposita == ultimo'.transacao.tipo = "Deposito"
Valor == ultimo'.transacao.valor

\* The step begins and ends on the same calendar date.
MesmaData == Data(agora') = Data(agora)

\* The withdrawals recorded for the calendar date on which the step begins.
SaquesDeHoje == SaquesNaData(historico, Data(agora))

\* The call of the step raised / returned normally.
Rejeitada == ultimo'.erro # Nenhum
Aceita == ultimo'.erro = Nenhum

\* The call of the step left the balance and the history as they were.
Intacta == saldo' = saldo /\ historico' = historico

\* The call of the step appended exactly the entry of tr, stamped by the clock.
Acrescenta(tr) ==
    \E t \in agora..agora' :
        historico' = Append(historico, [data |-> t, transacao |-> tr])

\* The kinds and amounts of the history, without the timestamps.
Movimentos == [i \in 1..Len(historico) |-> historico[i].transacao]

\* No NaN has entered the account: neither the balance nor an amount of the
\* history is NaN.
SemNaN ==
    /\ ~IsNaN(saldo)
    /\ \A i \in 1..Len(historico) : ~IsNaN(historico[i].transacao.valor)

\* -------------------------------------------------------------------- claims
\* C1: the balance equals the sum of the amounts of the Deposito entries
\* minus the sum of the amounts of the Saque entries of the history, after
\* any sequence of accepted and rejected transactions.
C1_SaldoIgualSomaDoHistorico ==
    FEq(saldo, FSub(Soma(historico, "Deposito"), Soma(historico, "Saque")))

\* C2: in every reachable state the balance is >= 0.
C2_SaldoNaoNegativo == FGe(saldo, Fin(0))

\* The ledger relation of C1 and the sign of C2 on the accounts that no NaN
\* has entered.
LedgerSemNaN ==
    SemNaN => (C1_SaldoIgualSomaDoHistorico /\ C2_SaldoNaoNegativo)

\* C3: a call of registrar that is rejected, with whichever of the four
\* exceptions, leaves the history and the balance as they were.
C3_RejeitadaNaoAltera == [][Rejeitada => Intacta]_vars

\* C3, witness: a withdrawal was rejected for insufficient funds on an account
\* that holds money and has a history.
C3_Witness ==
    /\ ultimo.erro.nome = "SaldoInsuficienteError"
    /\ ultimo.transacao.tipo = "Saque"
    /\ FGt(saldo, Fin(0))
    /\ Len(historico) >= 2

\* C4, as stated: a withdrawal of more than the balance fails with
\* SaldoInsuficienteError on any account and leaves balance and history
\* unchanged.
C4_Original ==
    [][(Saca /\ FGt(Valor, saldo)) =>
          (ultimo'.erro.nome = "SaldoInsuficienteError" /\ Intacta)]_vars

\* C4, amended: a withdrawal of more than the balance always fails and leaves
\* balance and history unchanged.  The failure is SaldoInsuficienteError on a
\* plain Conta, and on a ContaCorrente when the amount is within the
\* per-operation limit and fewer than limite_saques withdrawals are recorded
\* for the current date; a ContaCorrente asked for more than the per-operation
\* limit fails with LimiteSaqueError instead.
C4_SaqueAcimaDoSaldo ==
    [][(Saca /\ FGt(Valor, saldo)) =>
          /\ Rejeitada
          /\ Intacta
          /\ (classe = "Conta"
                \/ (FLe(Valor, Fin(LimitePadrao))
                      /\ SaquesDeHoje < LimiteSaquesPadrao))
               => ultimo'.erro = SaldoInsuficienteError(saldo, Valor)
          /\ (classe = "ContaCorrente" /\ FGt(Valor, Fin(LimitePadrao)))
               => ultimo'.erro.nome = "LimiteSaqueError"]_vars

\* C4, witness: a ContaCorrente with a history and no money left refused a
\* withdrawal of 500 for insufficient funds.
C4_Witness ==
    /\ classe = "ContaCorrente"
    /\ ultimo = [transacao |-> Saque(Fin(500)),
                 erro |-> SaldoInsuficienteError(Fin(0), Fin(500))]
    /\ saldo = Fin(0)
    /\ Len(historico) >= 2

\* C5, as stated: a withdrawal of an amount <= 0 fails with ValorInvalidoError
\* on any account, whatever number of withdrawals the current date holds, and
\* leaves balance and history unchanged.  (Stated for the accounts that no NaN
\* has entered: it fails already there.)
C5_Original ==
    [][(Saca /\ FLe(Valor, Fin(0)) /\ SemNaN) =>
          (ultimo'.erro = ValorInvalidoError /\ Intacta)]_vars

\* C5, amended: a withdrawal of an amount <= 0 always fails and leaves balance
\* and history unchanged.  The failure is ValorInvalidoError on a plain Conta,
\* and on a ContaCorrente with fewer than limite_saques withdrawals recorded
\* for the current date; a ContaCorrente that holds limite_saques withdrawals
\* for the date of the call fails with LimiteQtdSaquesError instead.
C5_SaqueNaoPositivo ==
    [][(Saca /\ FLe(Valor, Fin(0))) =>
          /\ Rejeitada
          /\ Intacta
          /\ (classe = "Conta" \/ SaquesDeHoje < LimiteSaquesPadrao)
               => ultimo'.erro = ValorInvalidoError
          /\ (classe = "ContaCorrente" /\ MesmaData
                /\ SaquesDeHoje >= LimiteSaquesPadrao)
               => ultimo'.erro = LimiteQtdSaquesError]_vars

\* C5, witness: a ContaCorrente with two withdrawals (of finite amounts)
\* recorded today refused a withdrawal of -1 as an invalid amount.
C5_Witness ==
    /\ classe = "ContaCorrente"
    /\ SemNaN
    /\ ultimo = [transacao |-> Saque(Fin(-1)), erro |-> ValorInvalidoError]
    /\ SaquesNaData(historico, Data(agora)) = 2

\* C6, as stated: on a ContaCorrente whose history holds limite_saques
\* withdrawals for the current date, a further withdrawal of any amount on
\* that date fails with LimiteQtdSaquesError.  (Stated for the accounts that
\* no NaN has entered: it fails already there.)
C6_Original ==
    [][(Saca /\ classe = "ContaCorrente" /\ MesmaData /\ SemNaN
          /\ SaquesDeHoje >= LimiteSaquesPadrao) =>
          ultimo'.erro = LimiteQtdSaquesError]_vars

\* C6, amended: on such a ContaCorrente a further withdrawal on that date
\* fails with LimiteQtdSaquesError for every amount that is not greater than
\* the per-operation limit (valid or not); an amount greater than the limit
\* fails with LimiteSaqueError.  Balance and history are unchanged.
C6_QuartoSaqueDoDia ==
    [][(Saca /\ classe = "ContaCorrente" /\ MesmaData
          /\ SaquesDeHoje >= LimiteSaquesPadrao) =>
          /\ Intacta
          /\ ultimo'.erro = IF FGt(Valor, Fin(LimitePadrao))
                            THEN LimiteSaqueError(Fin(LimitePadrao))
                            ELSE LimiteQtdSaquesError]_vars

\* C6, witness: with three withdrawals recorded today and 500 in the account,
\* a fourth withdrawal, of the invalid amount 0, was refused for the daily
\* count.
C6_Witness ==
    /\ classe = "ContaCorrente"
    /\ ultimo = [transacao |-> Saque(Fin(0)), erro |-> LimiteQtdSaquesError]
    /\ SaquesNaData(historico, Data(agora)) = LimiteSaquesPadrao
    /\ saldo = Fin(500)

\* C7: on a ContaCorrente a withdrawal of more than the per-operation limit
\* fails with LimiteSaqueError carrying the limit, in every state, also when
\* today's count has reached limite_saques or the amount exceeds the balance;
\* balance and history are unchanged.
C7_LimitePorOperacaoPrimeiro ==
    [][(Saca /\ classe = "ContaCorrente" /\ FGt(Valor, Fin(LimitePadrao))) =>
          /\ ultimo'.erro = LimiteSaqueError(Fin(LimitePadrao))
          /\ Intacta]_vars

\* C7, witness: with three withdrawals recorded today, a withdrawal of 2000
\* from a balance of 500 was refused for the per-operation limit.
C7_Witness ==
    /\ classe = "ContaCorrente"
    /\ ultimo = [transacao |-> Saque(Fin(2000)),
                 erro |-> LimiteSaqueError(Fin(500))]
    /\ SaquesNaData(historico, Data(agora)) = LimiteSaquesPadrao
    /\ saldo = Fin(500)

\* C8: on a ContaCorrente, a withdrawal with 0 < amount <= limit,
\* amount <= balance and fewer than limite_saques withdrawals recorded for
\* the current date succeeds, decreases the balance by exactly the amount and
\* appends exactly one Saque entry.
C8_SaqueValido ==
    [][(Saca /\ classe = "ContaCorrente"
          /\ FGt(Valor, Fin(0)) /\ FLe(Valor, Fin(LimitePadrao))
          /\ FLe(Valor, saldo)
          /\ SaquesDeHoje < LimiteSaquesPadrao) =>
          /\ Aceita
          /\ FEq(saldo', FSub(saldo, Valor))
          /\ Acrescenta(Saque(Valor))]_vars

\* C8, witness: 2000 deposited, then three withdrawals of 500 (the amount
\* equal to the limit) accepted, leaving 500.
C8_Witness ==
    /\ classe = "ContaCorrente"
    /\ Movimentos = <<Deposito(Fin(2000)), Saque(Fin(500)), Saque(Fin(500)),
                      Saque(Fin(500))>>
    /\ ultimo = [transacao |-> Saque(Fin(500)), erro |-> Nenhum]
    /\ saldo = Fin(500)

\* C9: a deposit of an amount > 0 succeeds on any account in any reachable
\* state, increases the balance by exactly the amount and appends exactly one
\* Deposito entry to the end of the history.
C9_DepositoValido ==
    [][(Deposita /\ FGt(Valor, Fin(0))) =>
          /\ Aceita
          /\ FEq(saldo', FAdd(saldo, Valor))
          /\ Acrescenta(Deposito(Valor))]_vars

\* The deposit rule of C9 on the accounts that no NaN has entered.
DepositoValidoSemNaN ==
    [][(Deposita /\ FGt(Valor, Fin(0)) /\ SemNaN) =>
          /\ Aceita
          /\ FEq(saldo', FAdd(saldo, Valor))
          /\ Acrescenta(Deposito(Valor))]_vars

\* C10: a deposit of an amount <= 0 fails with ValorInvalidoError on any
\* account in any state and leaves balance and history unchanged.
C10_DepositoNaoPositivo ==
    [][(Deposita /\ FLe(Valor, Fin(0))) =>
          (ultimo'.erro = ValorInvalidoError /\ Intacta)]_vars

\* C10, witness: a deposit of -1 was refused on an account that holds money
\* and has a history.
C10_Witness ==
    /\ ultimo = [transacao |-> Deposito(Fin(-1)), erro |-> ValorInvalidoError]
    /\ FGt(saldo, Fin(0))
    /\ Len(historico) >= 2

\* C19: on a ContaCorrente mutated only through transactions, under a clock
\* that never goes backwards, no calendar date has more than
\* dailyWithdrawalLimit Saque entries in the history, even when the date
\* changes between the count of sacar and the append of registrar.
C19_NenhumaDataAcimaDoLimite ==
    classe = "ContaCorrente" =>
        \A d \in 0..Data(MaxRelogio) :
            SaquesNaData(historico, d) <= LimiteSaquesPadrao

\* C19, witness: the clock reached a later date while the program ran, the
\* quota of that date is used up and a further withdrawal was refused for it.
C19_Witness ==
    /\ classe = "ContaCorrente"
    /\ Data(agora) > 0
    /\ SaquesNaData(historico, Data(agora)) = LimiteSaquesPadrao
    /\ ultimo.transacao.tipo = "Saque"
    /\ ultimo.erro = LimiteQtdSaquesError
    /\ SemNaN

\* C20: on a ContaCorrente mutated only through transactions, every entry of
\* the history has an amount > 0 and every Saque entry an amount <= the
\* per-operation limit, after any sequence of operations.
C20_ValoresDoHistorico ==
    classe = "ContaCorrente" =>
        \A i \in 1..Len(historico) :
            /\ FGt(historico[i].transacao.valor, Fin(0))
            /\ historico[i].transacao.tipo = "Saque" =>
                   FLe(historico[i].transacao.valor, Fin(LimitePadrao))

\* The amounts of C20 on the accounts that no NaN has entered.
ValoresDoHistoricoSemNaN ==
    (classe = "ContaCorrente" /\ SemNaN) =>
        \A i \in 1..Len(historico) :
            /\ FGt(historico[i].transacao.valor, Fin(0))
            /\ historico[i].transacao.tipo = "Saque" =>
                   FLe(historico[i].transacao.valor, Fin(LimitePadrao))

\* C12: Historico.transacoes returns an independent copy: appending to,
\* removing from or reordering the returned list changes neither what later
\* snapshots return, nor the daily withdrawal count computed from the
\* history, nor the data salvar_dados_json writes for it.
C12_CopiaIndependente ==
    [][MutarCopia =>
          /\ transacoes(historico').itens = transacoes(historico).itens
          /\ saques_hoje(historico', 1, agora') = saques_hoje(historico, 1, agora)
          /\ historico_formatado(transacoes(historico').itens) =
                 historico_formatado(transacoes(historico).itens)]_vars

\* C12, witness: the caller's list no longer has the entries of the history
\* it was taken from, and the history holds a deposit and a withdrawal.
C12_Witness ==
    /\ copia.tem
    /\ Len(historico) >= 2
    /\ Len(copia.itens) >= 2
    /\ copia.itens = Reverse(historico)
    /\ copia.itens # historico

\* C13: save followed by load is a round trip: in any state reachable
\* through the menu, carregar_dados_json applied to the output of
\* salvar_dados_json rebuilds the same customers (name, CPF), the same
\* accounts (number, branch, balance, owner found by CPF) and for each
\* account the same history entries (kind, amount, timestamp) in the same
\* order.
C13_SalvarECarregar ==
    LET lido == carregar_dados_json(salvar_dados_json(clientes, contas)) IN
        /\ Len(lido.clientes) = Len(clientes)
        /\ \A i \in 1..Len(clientes) :
              /\ lido.clientes[i].nome = clientes[i].nome
              /\ lido.clientes[i].cpf = clientes[i].cpf
              /\ lido.clientes[i].contas = clientes[i].contas
        /\ Len(lido.contas) = Len(contas)
        /\ \A k \in 1..Len(contas) :
              /\ lido.contas[k].numero = contas[k].numero
              /\ lido.contas[k].agencia = contas[k].agencia
              /\ lido.contas[k].saldo = contas[k].saldo
              /\ lido.contas[k].cliente = contas[k].cliente
              /\ lido.clientes[lido.contas[k].cliente].cpf =
                     clientes[contas[k].cliente].cpf
              /\ lido.contas[k].historico = contas[k].historico

\* C13, witness: main() has just loaded the file an earlier run saved: two
\* customers, two accounts, and a history with a deposit and a withdrawal
\* made at different instants.
C13_Witness ==
    /\ pc = "menu"
    /\ arquivo = salvar_dados_json(clientes, contas)
    /\ Len(clientes) = 2
    /\ Len(contas) = 2
    /\ \E k \in 1..Len(contas) :
          /\ Len(contas[k].historico) = 2
          /\ contas[k].historico[2].transacao.tipo = "Saque"
          /\ contas[k].historico[2].data > contas[k].historico[1].data

\* C14: account numbers are unique and assigned in sequence: after any
\* sequence of loads and criar_conta operations no two accounts of the
\* account list have the same number, and the k-th account has number k.
C14_NumerosSequenciais ==
    /\ \A k \in 1..Len(contas) : contas[k].numero = k
    /\ \A j, k \in 1..Len(contas) :
          contas[j].numero = contas[k].numero => j = k

\* C14, witness: criar_conta has just added an account to the account an
\* earlier run had saved and this run loaded.
C14_Witness ==
    /\ pc = "pausa"
    /\ menu.op = "nc"
    /\ arquivo.estado = "escrito"
    /\ Len(arquivo.contas) = 1
    /\ Len(contas) = 2
    /\ menu.conta = 2

\* The sequence a is an initial part of the sequence b.
IsPrefix(a, b) == Len(a) <= Len(b) /\ SubSeq(b, 1, Len(a)) = a

\* C15: the history of an account is append-only: for every operation (an
\* accepted or rejected deposit or withdrawal, a snapshot, a save), the
\* history before the operation is a prefix of the history after it; no
\* entry is ever removed, reordered or edited.
C15_HistoricoSoCresce ==
    [][\A k \in 1..Len(contas) :
          /\ k <= Len(contas')
          /\ IsPrefix(contas[k].historico, contas'[k].historico)]_vars

\* C15, witness: a withdrawal was refused on an account whose history has a
\* deposit and a withdrawal, in a run that loaded what an earlier run saved.
C15_Witness ==
    /\ pc = "pausa"
    /\ menu.op = "s"
    /\ menu.erro.nome = "SaldoInsuficienteError"
    /\ arquivo.estado = "escrito"
    /\ \E k \in 1..Len(contas) :
          /\ contas[k].numero = menu.conta
          /\ Len(contas[k].historico) = 2
          /\ k <= Len(arquivo.contas)
          /\ Len(arquivo.contas[k].historico) = 1

\* C16: with a clock that never goes backwards, the timestamps of the
\* entries of an account's history are non-decreasing in insertion order
\* after any sequence of transactions, also when the history is continued
\* after a save and a load.
C16_DatasNaoDecrescentes ==
    \A k \in 1..Len(contas) :
        \A i, j \in 1..Len(contas[k].historico) :
            i < j => contas[k].historico[i].data <= contas[k].historico[j].data

\* C16, witness: a history an earlier run saved with entries of two different
\* instants was loaded and got one more entry in this run.
C16_Witness ==
    /\ pc = "pausa"
    /\ arquivo.estado = "escrito"
    /\ \E k \in 1..Len(contas) :
          /\ k <= Len(arquivo.contas)
          /\ Len(arquivo.contas[k].historico) = 2
          /\ Len(contas[k].historico) = 3
          /\ contas[k].historico[1].data < contas[k].historico[2].data

\* C17: CPFs are unique in the customer list after any sequence of
\* criar_cliente operations, and an attempt to register a CPF that is
\* already present is rejected and leaves the list unchanged.
C17_CPFUnico ==
    /\ [](\A i, j \in 1..Len(clientes) :
            clientes[i].cpf = clientes[j].cpf => i = j)
    /\ [][\A cpf \in CPFs :
            (/\ criar_cliente(cpf, Nome(cpf))
             /\ \E i \in 1..Len(clientes) : clientes[i].cpf = cpf)
            => /\ clientes' = clientes
               /\ menu'.msg = "Ja existe um cliente com este CPF!"]_vars

\* C17, witness: with two customers registered, criar_cliente was asked for
\* the CPF of one of them and refused.
C17_Witness ==
    /\ pc = "pausa"
    /\ menu.op = "nu"
    /\ menu.msg = "Ja existe um cliente com este CPF!"
    /\ Len(clientes) = 2

\* C18: the menu options deposit, withdraw and statement act on the first
\* account of the customer: every executar_deposito / executar_saque changes
\* only the balance and the history of contas[0] of the customer, the
\* statement shows that account, and every other account of the customer and
\* of every other customer keeps balance 0 and an empty history.
C18_SoAPrimeiraConta ==
    /\ [](\A c \in 1..Len(clientes) :
            \A n \in 2..Len(clientes[c].contas) :
                /\ contas[clientes[c].contas[n]].saldo = Fin(0)
                /\ contas[clientes[c].contas[n]].historico = <<>>)
    /\ [][\A cpf \in CPFs :
            (\/ \E texto \in Textos : executar_deposito(cpf, texto)
             \/ \E texto \in Textos : executar_saque(cpf, texto)
             \/ exibir_extrato_cliente(cpf))
            => \A c \in 1..Len(clientes) :
                  /\ clientes[c].cpf # cpf =>
                        \A n \in 1..Len(clientes[c].contas) :
                            contas'[clientes[c].contas[n]] =
                                contas[clientes[c].contas[n]]
                  /\ clientes[c].cpf = cpf =>
                        /\ \A n \in 2..Len(clientes[c].contas) :
                              contas'[clientes[c].contas[n]] =
                                  contas[clientes[c].contas[n]]
                        /\ clientes[c].contas # <<>> =>
                              menu'.conta = contas[clientes[c].contas[1]].numero
         ]_vars

\* C18, witness: a customer with two accounts, the other customer's account
\* between them, has made a deposit through the menu.
C18_Witness ==
    /\ pc = "pausa"
    /\ menu.op = "d"
    /\ menu.erro = Nenhum
    /\ Len(contas) = 3
    /\ \E c \in 1..Len(clientes) :
          /\ clientes[c].contas = <<1, 3>>
          /\ contas[1].numero = menu.conta
          /\ Len(contas[1].historico) = 1
          /\ contas[3].historico = <<>>

\* C11: the daily count of ContaCorrente.sacar counts exactly the history
\* entries that are withdrawals dated on the date the clock shows at the
\* check: deposits, rejected attempts and withdrawals of other days do not
\* count, so an account that used up its quota on day D accepts an otherwise
\* valid withdrawal again as soon as the clock date is D+1.
C11_ContagemPorData ==
    [][(Saca /\ classe = "ContaCorrente") =>
          /\ ultimo'.erro = LimiteQtdSaquesError =>
                SaquesDeHoje >= LimiteSaquesPadrao
          /\ MesmaData =>
                (ultimo'.erro = LimiteQtdSaquesError <=>
                    (/\ ~FGt(Valor, Fin(LimitePadrao))
                     /\ SaquesDeHoje >= LimiteSaquesPadrao))
          /\ (/\ MesmaData
              /\ SaquesDeHoje < LimiteSaquesPadrao
              /\ FGt(Valor, Fin(0))
              /\ FLe(Valor, Fin(LimitePadrao))
              /\ FLe(Valor, saldo)) =>
                (Aceita /\ Acrescenta(Saque(Valor)))]_vars

\* C11, witness: three withdrawals are recorded on day 0, a further one was
\* refused for the count, and on day 1 a withdrawal was accepted.
C11_Witness ==
    /\ classe = "ContaCorrente"
    /\ SaquesNaData(historico, 0) = LimiteSaquesPadrao
    /\ Len(historico) = 5
    /\ historico[1].transacao.tipo = "Deposito"
    /\ historico[5].transacao.tipo = "Saque"
    /\ Data(historico[5].data) = 1
    /\ ultimo = [transacao |-> Saque(Fin(500)), erro |-> Nenhum]

\* The history of the account is the one the file holds: the run has loaded
\* it and has appended nothing since.
Recarregado ==
    /\ arquivo.estado = "escrito"
    /\ historico = carregar_dados_json(arquivo).contas[1].historico

\* C21: the daily withdrawal quota survives a restart: if the account reached
\* dailyWithdrawalLimit withdrawals on day D, then after salvar_dados_json
\* and carregar_dados_json a further withdrawal of an amount within the
\* per-operation limit attempted on the same day D is still rejected with
\* LimiteQtdSaquesError, because the reloaded history keeps the timestamps
\* and the kinds of its entries.
C21_CotaSobreviveAoReinicio ==
    [][/\ (pc = "parado" /\ pc' = "menu") =>
            \A d \in 0..Data(MaxRelogio) :
                SaquesNaData(historico', d) = SaquesNaData(historico, d)
       /\ (/\ pc = "menu" /\ pc' = "menu"
           /\ Recarregado
           /\ Saca
           /\ MesmaData
           /\ SaquesDeHoje >= LimiteSaquesPadrao
           /\ ~FGt(Valor, Fin(LimitePadrao))) =>
              (ultimo'.erro = LimiteQtdSaquesError /\ Intacta)]_vars

\* C21, witness: a run loaded an account that an earlier run saved with a
\* deposit and three withdrawals of day 0, and a withdrawal of 500 asked on
\* day 0 in this run was refused for the count.
C21_Witness ==
    /\ pc = "menu"
    /\ Recarregado
    /\ Len(historico) = 4
    /\ SaquesNaData(historico, 0) = LimiteSaquesPadrao
    /\ Data(agora) = 0
    /\ FGe(saldo, Fin(500))
    /\ ultimo = [transacao |-> Saque(Fin(500)), erro |-> LimiteQtdSaquesError]

====
